---- MODULE Spec2Model ----
(***************************************************************************)
(* Booking lifecycle of the Jirawala taxi-booking application.             *)
(*                                                                         *)
(* The store is the Django database in its default autocommit mode: every  *)
(* ORM write (Model.save, Manager.create, QuerySet.update) is committed on *)
(* its own, and no view of booking/views.py, booking/serializers.py or     *)
(* booking/admin.py opens a transaction.  A write may raise a storage      *)
(* error; the handlers' try/except blocks decide what happens then.        *)
(*                                                                         *)
(* An Inquiry row is projected onto the fields the booking lifecycle       *)
(* reads or writes: status, car_type, assigned_car, the trip kind with the *)
(* pickup and return times, admin_notes, created_at and updated_at.        *)
(***************************************************************************)
EXTENDS Integers, Sequences, FiniteSets, TLC

VARIABLES
    inquiries,   \* Inquiry table: id -> row
    last_id,     \* the autoincrement counter of the Inquiry table
    history,     \* BookingStatusHistory table, in insertion (changed_at) order
    car_types,   \* CarType table: id -> row
    cars,        \* Car table: id -> row
    now,         \* timezone.now()
    response,    \* the answer to the last request: which handler, what outcome
    mail,        \* send_booking_email: how often it was called, how often it sent
    requests,    \* the requests in flight that run in steps, one per admin session
    gallery      \* Gallery table: id -> row

vars == <<inquiries, last_id, history, car_types, cars, now, response, mail, requests,
          gallery>>

----------------------------------------------------------------------------
(* Bounds of the model *)

MaxBookings == 1
MaxHistory == 3
MaxTime == 2

----------------------------------------------------------------------------
(* Values *)

\* Inquiry.STATUS_CHOICES, the keys
STATUS_CHOICES == {"pending", "confirmed", "in_progress", "completed", "cancelled"}

\* None for a nullable foreign key (ids start at 1) and for a nullable time
NoCar == 0
NoTime == -1

\* what a client may send as a trip kind; the validators tell 'round-trip'
\* from every other kind
TripInputs == {"one-way", "round-trip"}

Admins == {"admin1"}
\* the two admin sessions whose requests may interleave
RaceAdmins == {"admin1", "admin2"}
NoteInputs == {"", "call back"}
CarIdInputs == {NoCar, 1, 2, 3}
CarTypeIdInputs == {0, 1, 2}
CarTypeNameInputs == {"sedan", "SUV"}

\* a pickup time just before the submission, and one at the submission
PickupInputs == {now - 1, now}
\* no return time, one at the later pickup time, one after it
ReturnInputs == {NoTime, now, now + 1}

\* random.choices(string.digits, k=4): two of the suffixes it can draw, and
\* the first of them alone
SuffixInputs == {"0000", "0001"}
OneSuffix == {"0000"}

\* an Inquiry built without a booking_id
NoBookingId == <<>>

\* what a client may send as a distance or a price: a negative number, zero,
\* a positive number, and text that is no number
AmountInputs == {"-5", "0", "12", "abc"}
\* the amounts of a plain booking
PlainAmounts == {"12"}
\* a PATCH payload without the field
Absent == ""

\* Decimal(str(value)) raises InvalidOperation on text that is no number
IsDecimal(value) == value \in {"-5", "0", "12"}

\* Decimal(str(value)) on the amounts in play
ToDecimal(value) ==
    CASE value = "-5" -> -5
      [] value = "0" -> 0
      [] value = "12" -> 12

\* the step of a handler that fails, "none" when none does: a write that
\* raises a storage error, or ("smtp") the SMTP session of send_booking_email
NoFault == {"none"}
UpdateFaults == {"none", "save", "history"}
SaveFaults == {"none", "save"}
CreateFaults == {"none", "car_type", "inquiry", "smtp", "history", "assign"}

\* str.lower() and str.capitalize() on the car type names in play
Lower(s) ==
    CASE s = "SUV" -> "suv"
      [] s = "Suv" -> "suv"
      [] s = "Sedan" -> "sedan"
      [] OTHER -> s

Capitalize(s) ==
    CASE s = "suv" -> "Suv"
      [] s = "sedan" -> "Sedan"
      [] OTHER -> s

----------------------------------------------------------------------------
(* Rows *)

InquiryRow(status, car_type, trip_type, datetime, return_datetime, booking_id, distance_km, price) ==
    [status |-> status, car_type |-> car_type, assigned_car |-> NoCar,
     trip_type |-> trip_type, datetime |-> datetime,
     return_datetime |-> return_datetime, booking_id |-> booking_id,
     distance_km |-> distance_km, price |-> price,
     admin_notes |-> "", created_at |-> now, updated_at |-> now]

\* "JTT{}{}".format(timestamp, random_suffix)
GeneratedBookingId(suffix) == <<"JTT", now, suffix>>

\* Inquiry.save: a booking_id is generated when the instance has none
SavedBookingId(booking_id, suffix) ==
    IF booking_id = NoBookingId THEN GeneratedBookingId(suffix) ELSE booking_id

\* the column without its unique index
BookingIdTaken_NoIndex(booking_id) == FALSE

\* unique=True on Inquiry.booking_id: the insert of a row whose booking_id is
\* already in the table raises an IntegrityError
BookingIdTaken(booking_id) ==
    \E id \in DOMAIN inquiries : inquiries[id].booking_id = booking_id

HistoryRow(inquiry, old, new, by) ==
    [inquiry |-> inquiry, old_status |-> old, new_status |-> new, changed_by |-> by]

\* the rows of one booking, oldest first
RECURSIVE SelectRows(_, _)
SelectRows(rows, id) ==
    IF rows = <<>> THEN <<>>
    ELSE IF Head(rows).inquiry = id
         THEN <<Head(rows)>> \o SelectRows(Tail(rows), id)
         ELSE SelectRows(Tail(rows), id)

HistoryOf(id) == SelectRows(history, id)

Respond(op, result) == [op |-> op, result |-> result]

\* an admin session with no request in flight
IdleRequest ==
    [pos |-> "idle", id |-> 0, old_status |-> "", new_status |-> "", write_no |-> 0]

----------------------------------------------------------------------------
(* The state from which the model starts: the catalog holds one car type   *)
(* and two cars of it, one of them marked unavailable, and no booking has   *)
(* been made.                                                               *)

Init ==
    /\ inquiries = <<>>
    /\ last_id = 0
    /\ history = <<>>
    /\ car_types = (1 :> [name |-> "Sedan", is_active |-> TRUE])
    /\ cars = (1 :> [car_type |-> 1, is_available |-> TRUE]) @@
              (2 :> [car_type |-> 1, is_available |-> FALSE])
    /\ now = 1
    /\ response = Respond("none", "none")
    /\ mail = [invoked |-> 0, sent |-> 0]
    /\ requests = [a \in RaceAdmins |-> IdleRequest]
    /\ gallery = <<>>

Tick ==
    /\ now < MaxTime
    /\ now' = now + 1
    /\ UNCHANGED <<inquiries, last_id, history, car_types, cars, response, mail, requests,
                   gallery>>

----------------------------------------------------------------------------
(* custom_admin_booking_detail, action 'update_status' *)

\* the check with its membership test dropped
ValidStatus_NoMembership(s) == s # ""

\* the check with a rule of a transition graph added: no way back to 'pending'
ValidStatus_NoReopen(s) == s # "" /\ s \in STATUS_CHOICES \ {"pending"}

\* new_status and new_status in dict(Inquiry.STATUS_CHOICES)
ValidStatus(s) == s # "" /\ s \in STATUS_CHOICES

UpdateStatus(admin, id, new_status, fault) ==
    /\ IF id \notin DOMAIN inquiries
       THEN \* get_object_or_404 raises inside the first try block
            /\ response' = Respond("update_status", "load_error")
            /\ UNCHANGED <<inquiries, history>>
       ELSE IF ~ValidStatus(new_status)
       THEN /\ response' = Respond("update_status", "invalid_status")
            /\ UNCHANGED <<inquiries, history>>
       ELSE IF fault = "save"
       THEN \* booking.save raises: the outer except reports the error
            /\ response' = Respond("update_status", "error")
            /\ UNCHANGED <<inquiries, history>>
       ELSE /\ Len(history) < MaxHistory
            /\ inquiries' = [inquiries EXCEPT ![id].status = new_status,
                                              ![id].updated_at = now]
            /\ history' = IF fault = "history"
                          THEN history   \* the inner except swallows the error
                          ELSE Append(history,
                                      HistoryRow(id, inquiries[id].status,
                                                 new_status, admin))
            /\ response' = Respond("update_status", "success")
    /\ UNCHANGED <<last_id, car_types, cars, now, gallery, mail, requests>>

----------------------------------------------------------------------------
(* Creation requests *)

\* the trip fields, the car type name and the amounts of a booking form
BookingForms(names) ==
    [tripType : TripInputs, pickupDate : PickupInputs, dropoffDate : ReturnInputs,
     carType : names, distance : PlainAmounts, totalPrice : PlainAmounts]

\* BookingCreateSerializer.validate_pickupDate, InquirySerializer.validate_datetime
PickupInPast(value) == value < now

\* BookingCreateSerializer.validate, InquirySerializer.validate
RoundTripInvalid(tripType, pickupDate, dropoffDate) ==
    /\ tripType = "round-trip"
    /\ \/ dropoffDate = NoTime
       \/ dropoffDate <= pickupDate

\* BookingCreateSerializer.validate_totalPrice, validate_distance, after the
\* DecimalField has parsed the value
PositiveAmount(value) == IsDecimal(value) /\ ToDecimal(value) > 0

\* BookingCreateSerializer.is_valid on the trip fields and the amounts
BookingFormValid(form) ==
    /\ ~PickupInPast(form.pickupDate)
    /\ PositiveAmount(form.totalPrice)
    /\ PositiveAmount(form.distance)
    /\ ~RoundTripInvalid(form.tripType, form.pickupDate, form.dropoffDate)

\* CarType.objects.get_or_create(name__iexact=...): the matching ids
CarTypesNamed(name) ==
    {t \in DOMAIN car_types : Lower(car_types[t].name) = Lower(name)}

MaxOf(S) == IF S = {} THEN 0 ELSE CHOOSE x \in S : \A y \in S : y <= x

NewCarTypeId == MaxOf(DOMAIN car_types) + 1

\* the row the serializer writes first
CreatedInquiry(form, car_type, suffix) ==
    InquiryRow("pending", car_type, form.tripType, form.pickupDate, form.dropoffDate,
               SavedBookingId(GeneratedBookingId(suffix), suffix),
               ToDecimal(form.distance), ToDecimal(form.totalPrice))

\* the call of send_booking_email: its SMTP errors are caught inside it
Notified(fault) ==
    [invoked |-> mail.invoked + 1,
     sent |-> IF fault = "smtp" THEN mail.sent ELSE mail.sent + 1]

\* the initial row written with the model's default actor
CreatedHistory_DefaultActor(id) == HistoryRow(id, "", "pending", "System")

\* the row the serializer writes last
CreatedHistory(id) == HistoryRow(id, "", "pending", "Customer")

(* BookingCreateSerializer.create: the tables after it, and whether it     *)
(* raised.  Its steps, in order: the car type (when none matches), the     *)
(* Inquiry row, the notification (its errors are swallowed by              *)
(* send_booking_email), the initial history row.                           *)
SerializerCreate(form, suffix, fault) ==
    LET lname == Lower(form.carType)
        found == CarTypesNamed(lname)
        type_id == IF found = {} THEN NewCarTypeId ELSE MaxOf(found)
        types1 == IF found = {}
                  THEN car_types @@
                       (type_id :> [name |-> Capitalize(lname), is_active |-> TRUE])
                  ELSE car_types
        id == last_id + 1
        row == CreatedInquiry(form, type_id, suffix)
    IN  IF found = {} /\ fault = "car_type"
        THEN [car_types |-> car_types, inquiries |-> inquiries, last_id |-> last_id,
              history |-> history, mail |-> mail, raised |-> TRUE, id |-> 0]
        ELSE IF fault = "inquiry" \/ BookingIdTaken(row.booking_id)
        THEN [car_types |-> types1, inquiries |-> inquiries, last_id |-> last_id,
              history |-> history, mail |-> mail, raised |-> TRUE, id |-> 0]
        ELSE IF fault = "history"
        THEN [car_types |-> types1,
              inquiries |-> inquiries @@ (id :> row),
              last_id |-> id, history |-> history, mail |-> Notified(fault),
              raised |-> TRUE, id |-> id]
        ELSE [car_types |-> types1,
              inquiries |-> inquiries @@ (id :> row),
              last_id |-> id,
              history |-> Append(history, CreatedHistory(id)),
              mail |-> Notified(fault),
              raised |-> FALSE, id |-> id]

\* what the three endpoints built on the serializer share
SerializerEndpoint(op, form, suffix, fault) ==
    IF ~BookingFormValid(form)
    THEN /\ response' = Respond(op, "validation_error")
         /\ UNCHANGED <<inquiries, last_id, history, car_types, mail>>
    ELSE LET r == SerializerCreate(form, suffix, fault)
         IN  /\ Len(history) < MaxHistory
             /\ car_types' = r.car_types
             /\ inquiries' = r.inquiries
             /\ last_id' = r.last_id
             /\ history' = r.history
             /\ mail' = r.mail
             /\ response' = Respond(op, IF r.raised THEN "error" ELSE "created")

\* InquiryViewSet.create_booking
CreateBooking(form, suffix, fault) ==
    /\ SerializerEndpoint("create_booking", form, suffix, fault)
    /\ UNCHANGED <<cars, now, gallery, requests>>

\* BookingAPIView.post
BookingAPIPost(form, suffix, fault) ==
    /\ SerializerEndpoint("booking_api", form, suffix, fault)
    /\ UNCHANGED <<cars, now, gallery, requests>>

\* car_specific_booking
CarSpecificBooking(car_id, form, suffix, fault) ==
    /\ IF car_id # NoCar /\ car_id \notin DOMAIN cars
       THEN /\ response' = Respond("car_booking", "not_found")
            /\ UNCHANGED <<inquiries, last_id, history, car_types, mail>>
       ELSE IF car_id # NoCar /\ ~cars[car_id].is_available
       THEN /\ response' = Respond("car_booking", "unavailable")
            /\ UNCHANGED <<inquiries, last_id, history, car_types, mail>>
       ELSE IF ~BookingFormValid(form)
       THEN /\ response' = Respond("car_booking", "validation_error")
            /\ UNCHANGED <<inquiries, last_id, history, car_types, mail>>
       ELSE LET r == SerializerCreate(form, suffix, fault)
            IN  /\ Len(history) < MaxHistory
                /\ car_types' = r.car_types
                /\ last_id' = r.last_id
                /\ history' = r.history
                /\ mail' = r.mail
                /\ inquiries' =
                      IF ~r.raised /\ car_id # NoCar /\ fault # "assign"
                      THEN \* save(update_fields=['assigned_car'])
                           [r.inquiries EXCEPT ![r.id].assigned_car = car_id]
                      ELSE r.inquiries
                /\ response' = Respond("car_booking",
                                       IF r.raised THEN "error" ELSE "created")
    /\ UNCHANGED <<cars, now, gallery, requests>>

\* what a REST client posts to /api/inquiry/
RestForms ==
    [trip_type : TripInputs, datetime : PickupInputs, return_datetime : ReturnInputs,
     car_type : {1, 2}, status : {"", "confirmed", "bogus"},
     distance_km : PlainAmounts, price : PlainAmounts]

\* the status field taken as free text
StatusChoiceValid_FreeText(status) == TRUE

\* the ChoiceField that ModelSerializer builds for Inquiry.status; "" stands
\* for a payload without the field
StatusChoiceValid(status) == status = "" \/ status \in STATUS_CHOICES

\* the DecimalField that ModelSerializer builds for Inquiry.distance_km and
\* Inquiry.price, with the model's MinValueValidator(Decimal('0.00'))
AmountFieldValid(value) ==
    value = Absent \/ (IsDecimal(value) /\ ToDecimal(value) >= 0)

\* the model default Decimal('0.00') for a payload without the field
AmountOrDefault(value) == IF value = Absent THEN 0 ELSE ToDecimal(value)

\* InquirySerializer.is_valid on a creation request
RestFormValid(form) ==
    /\ ~PickupInPast(form.datetime)
    /\ AmountFieldValid(form.distance_km)
    /\ AmountFieldValid(form.price)
    /\ ~RoundTripInvalid(form.trip_type, form.datetime, form.return_datetime)
    /\ form.car_type = 0 \/ form.car_type \in DOMAIN car_types
    /\ StatusChoiceValid(form.status)

\* the default POST of InquiryViewSet: ModelSerializer.create, then Inquiry.save
RestCreate(form, suffix, fault) ==
    /\ IF ~RestFormValid(form)
       THEN /\ response' = Respond("rest_create", "validation_error")
            /\ UNCHANGED <<inquiries, last_id>>
       ELSE IF fault = "save" \/ BookingIdTaken(SavedBookingId(NoBookingId, suffix))
       THEN /\ response' = Respond("rest_create", "error")
            /\ UNCHANGED <<inquiries, last_id>>
       ELSE /\ last_id' = last_id + 1
            /\ inquiries' = inquiries @@
                  (last_id + 1 :>
                      InquiryRow(IF form.status = "" THEN "pending" ELSE form.status,
                                 form.car_type, form.trip_type, form.datetime,
                                 form.return_datetime,
                                 SavedBookingId(NoBookingId, suffix),
                                 AmountOrDefault(form.distance_km),
                                 AmountOrDefault(form.price)))
            /\ response' = Respond("rest_create", "created")
    /\ UNCHANGED <<history, car_types, cars, now, gallery, mail, requests>>

\* what the booking page posts to submit_booking
SubmitForms ==
    [trip_type : TripInputs, datetime : PickupInputs, return_datetime : ReturnInputs,
     car_type_id : CarTypeIdInputs, distance_km : PlainAmounts, price : PlainAmounts]

\* submit_booking, "Convert distance and price to Decimal": when either
\* conversion raises, both amounts become Decimal('0.00')
SubmittedAmounts(form) ==
    IF IsDecimal(form.distance_km) /\ IsDecimal(form.price)
    THEN [distance_km |-> ToDecimal(form.distance_km), price |-> ToDecimal(form.price)]
    ELSE [distance_km |-> 0, price |-> 0]

\* submit_booking
SubmitBooking(form, suffix, fault) ==
    /\ IF form.car_type_id = 0
       THEN /\ response' = Respond("submit_booking", "missing_fields")
            /\ UNCHANGED <<inquiries, last_id>>
       ELSE IF form.car_type_id \notin DOMAIN car_types
               \/ ~car_types[form.car_type_id].is_active
       THEN /\ response' = Respond("submit_booking", "invalid_car_type")
            /\ UNCHANGED <<inquiries, last_id>>
       ELSE IF fault = "save" \/ BookingIdTaken(SavedBookingId(NoBookingId, suffix))
       THEN /\ response' = Respond("submit_booking", "error")
            /\ UNCHANGED <<inquiries, last_id>>
       ELSE /\ last_id' = last_id + 1
            /\ inquiries' = inquiries @@
                  (last_id + 1 :>
                      InquiryRow("pending", form.car_type_id, form.trip_type,
                                 form.datetime, form.return_datetime,
                                 SavedBookingId(NoBookingId, suffix),
                                 SubmittedAmounts(form).distance_km,
                                 SubmittedAmounts(form).price))
            /\ response' = Respond("submit_booking", "created")
    /\ UNCHANGED <<history, car_types, cars, now, gallery, mail, requests>>

----------------------------------------------------------------------------
(* The other writers of a booking *)

\* the write of assigned_car that also confirms the booking
AssignedTo_Confirming(row, car_id) ==
    [row EXCEPT !.assigned_car = car_id, !.updated_at = now, !.status = "confirmed"]

\* booking.save(update_fields=['assigned_car', 'updated_at'])
AssignedTo(row, car_id) ==
    [row EXCEPT !.assigned_car = car_id, !.updated_at = now]

\* custom_admin_booking_detail, action 'assign_car'
AssignCar(id, car_id, fault) ==
    /\ IF id \notin DOMAIN inquiries
       THEN /\ response' = Respond("assign_car", "load_error")
            /\ UNCHANGED inquiries
       ELSE IF car_id = NoCar
       THEN \* no car_id posted: the page is rendered again
            /\ response' = Respond("assign_car", "none")
            /\ UNCHANGED inquiries
       ELSE IF car_id \notin DOMAIN cars \/ fault = "save"
       THEN \* get_object_or_404 or booking.save raises, caught by the action
            /\ response' = Respond("assign_car", "error")
            /\ UNCHANGED inquiries
       ELSE /\ inquiries' = [inquiries EXCEPT ![id] = AssignedTo(@, car_id)]
            /\ response' = Respond("assign_car", "success")
    /\ UNCHANGED <<last_id, history, car_types, cars, now, gallery, mail, requests>>

\* custom_admin_booking_detail, action 'remove_car'
RemoveCar(id, fault) ==
    /\ IF id \notin DOMAIN inquiries
       THEN /\ response' = Respond("remove_car", "load_error")
            /\ UNCHANGED inquiries
       ELSE IF fault = "save"
       THEN /\ response' = Respond("remove_car", "error")
            /\ UNCHANGED inquiries
       ELSE /\ inquiries' = [inquiries EXCEPT ![id] = AssignedTo(@, NoCar)]
            /\ response' = Respond("remove_car", "success")
    /\ UNCHANGED <<last_id, history, car_types, cars, now, gallery, mail, requests>>

\* custom_admin_booking_detail, action 'add_note'
AddNote(id, note, fault) ==
    /\ IF id \notin DOMAIN inquiries
       THEN /\ response' = Respond("add_note", "load_error")
            /\ UNCHANGED inquiries
       ELSE IF fault = "save"
       THEN /\ response' = Respond("add_note", "error")
            /\ UNCHANGED inquiries
       ELSE /\ inquiries' = [inquiries EXCEPT ![id].admin_notes = note,
                                              ![id].updated_at = now]
            /\ response' = Respond("add_note", "success")
    /\ UNCHANGED <<last_id, history, car_types, cars, now, gallery, mail, requests>>

\* InquiryAdmin.mark_as_confirmed, mark_as_in_progress, mark_as_completed,
\* mark_as_cancelled: queryset.update(status=...) on the selected bookings
BulkTargets == {"confirmed", "in_progress", "completed", "cancelled"}

MarkAs(status, selected, fault) ==
    /\ selected # {}
    /\ IF fault = "save"
       THEN /\ response' = Respond("admin_action", "error")
            /\ UNCHANGED inquiries
       ELSE /\ inquiries' = [id \in DOMAIN inquiries |->
                                IF id \in selected
                                THEN [inquiries[id] EXCEPT !.status = status]
                                ELSE inquiries[id]]
            /\ response' = Respond("admin_action", "success")
    /\ UNCHANGED <<last_id, history, car_types, cars, now, gallery, mail, requests>>

\* PATCH /api/inquiry/<id>/ (InquiryViewSet.partial_update,
\* ModelSerializer.update, Inquiry.save) with a payload of status, distance_km
\* and price; "" is a payload without the field
RestPartialUpdate(id, payload, fault) ==
    /\ IF id \notin DOMAIN inquiries
       THEN /\ response' = Respond("rest_patch", "not_found")
            /\ UNCHANGED inquiries
       ELSE IF \/ ~StatusChoiceValid(payload.status)
               \/ ~AmountFieldValid(payload.distance_km)
               \/ ~AmountFieldValid(payload.price)
       THEN /\ response' = Respond("rest_patch", "validation_error")
            /\ UNCHANGED inquiries
       ELSE IF fault = "save"
       THEN /\ response' = Respond("rest_patch", "error")
            /\ UNCHANGED inquiries
       ELSE /\ inquiries' =
                  [inquiries EXCEPT
                      ![id].status = IF payload.status = "" THEN @ ELSE payload.status,
                      ![id].distance_km = IF payload.distance_km = Absent THEN @
                                          ELSE ToDecimal(payload.distance_km),
                      ![id].price = IF payload.price = Absent THEN @
                                    ELSE ToDecimal(payload.price),
                      ![id].updated_at = now]
            /\ response' = Respond("rest_patch", "success")
    /\ UNCHANGED <<last_id, history, car_types, cars, now, gallery, mail, requests>>

\* the PATCH of the status alone
RestPatch(id, status, fault) ==
    RestPartialUpdate(id, [status |-> status, distance_km |-> Absent, price |-> Absent],
                      fault)

----------------------------------------------------------------------------
(* Deletions *)

\* a delete that empties the table
RemoveRows_All(rows, id) == <<>>

\* on_delete=models.CASCADE on BookingStatusHistory.inquiry: the table without
\* the rows of one booking
RECURSIVE RemoveRows(_, _)
RemoveRows(rows, id) ==
    IF rows = <<>> THEN <<>>
    ELSE IF Head(rows).inquiry = id
         THEN RemoveRows(Tail(rows), id)
         ELSE <<Head(rows)>> \o RemoveRows(Tail(rows), id)

\* DELETE /api/inquiry/<id>/ (InquiryViewSet.destroy, Model.delete)
RestDelete(id, fault) ==
    /\ IF id \notin DOMAIN inquiries
       THEN /\ response' = Respond("rest_delete", "not_found")
            /\ UNCHANGED <<inquiries, history>>
       ELSE IF fault = "save"
       THEN /\ response' = Respond("rest_delete", "error")
            /\ UNCHANGED <<inquiries, history>>
       ELSE /\ inquiries' = [i \in DOMAIN inquiries \ {id} |-> inquiries[i]]
            /\ history' = RemoveRows(history, id)
            /\ response' = Respond("rest_delete", "deleted")
    /\ UNCHANGED <<last_id, car_types, cars, now, gallery, mail, requests>>

\* the bookings that keep custom_admin_cars from deleting a car
ActiveBookingsOf(car_id) ==
    {id \in DOMAIN inquiries :
        /\ inquiries[id].assigned_car = car_id
        /\ inquiries[id].status \in {"pending", "confirmed", "in_progress"}}

\* a delete that leaves the reference in place
CarCleared_Kept(row, car_id) == row

\* on_delete=models.SET_NULL on Inquiry.assigned_car
CarCleared(row, car_id) ==
    IF row.assigned_car = car_id THEN [row EXCEPT !.assigned_car = NoCar] ELSE row

\* Car.delete: the car goes, the bookings that referenced it stay
CarDeleted(car_id) ==
    /\ cars' = [c \in DOMAIN cars \ {car_id} |-> cars[c]]
    /\ inquiries' = [id \in DOMAIN inquiries |-> CarCleared(inquiries[id], car_id)]

\* custom_admin_cars, action 'delete_car'
DeleteCar(car_id, fault) ==
    /\ IF car_id = NoCar
       THEN /\ response' = Respond("delete_car", "missing_id")
            /\ UNCHANGED <<cars, inquiries>>
       ELSE IF car_id \notin DOMAIN cars
       THEN \* get_object_or_404 raises, caught by the action
            /\ response' = Respond("delete_car", "error")
            /\ UNCHANGED <<cars, inquiries>>
       ELSE IF ActiveBookingsOf(car_id) # {}
       THEN /\ response' = Respond("delete_car", "refused")
            /\ UNCHANGED <<cars, inquiries>>
       ELSE IF fault = "save"
       THEN /\ response' = Respond("delete_car", "error")
            /\ UNCHANGED <<cars, inquiries>>
       ELSE /\ CarDeleted(car_id)
            /\ response' = Respond("delete_car", "deleted")
    /\ UNCHANGED <<last_id, history, car_types, now, gallery, mail, requests>>

\* CarAdmin of the Django admin: the delete view of a car
AdminDeleteCar(car_id, fault) ==
    /\ car_id \in DOMAIN cars
    /\ IF fault = "save"
       THEN /\ response' = Respond("admin_delete_car", "error")
            /\ UNCHANGED <<cars, inquiries>>
       ELSE /\ CarDeleted(car_id)
            /\ response' = Respond("admin_delete_car", "deleted")
    /\ UNCHANGED <<last_id, history, car_types, now, gallery, mail, requests>>

----------------------------------------------------------------------------
(* BookingStatusHistoryAdmin of the Django admin *)

\* a sequence without its i-th element
DropRow(rows, i) == SubSeq(rows, 1, i - 1) \o SubSeq(rows, i + 1, Len(rows))

\* the change view: every field but changed_at is editable, old_status and
\* new_status are validated against STATUS_CHOICES
HistoryAdminChange(i, old, new, by) ==
    /\ IF i \notin 1 .. Len(history)
       THEN /\ response' = Respond("admin_history_change", "not_found")
            /\ UNCHANGED history
       ELSE IF old \notin STATUS_CHOICES \/ new \notin STATUS_CHOICES
       THEN /\ response' = Respond("admin_history_change", "validation_error")
            /\ UNCHANGED history
       ELSE /\ history' = [history EXCEPT ![i] = [@ EXCEPT !.old_status = old,
                                                          !.new_status = new,
                                                          !.changed_by = by]]
            /\ response' = Respond("admin_history_change", "success")
    /\ UNCHANGED <<inquiries, last_id, car_types, cars, now, gallery, mail, requests>>

\* the delete view
HistoryAdminDelete(i) ==
    /\ IF i \notin 1 .. Len(history)
       THEN /\ response' = Respond("admin_history_delete", "not_found")
            /\ UNCHANGED history
       ELSE /\ history' = DropRow(history, i)
            /\ response' = Respond("admin_history_delete", "deleted")
    /\ UNCHANGED <<inquiries, last_id, car_types, cars, now, gallery, mail, requests>>

----------------------------------------------------------------------------
(* custom_admin_booking_detail, action 'update_status', as the steps that  *)
(* requests of two admin sessions can interleave: the load of the booking, *)
(* the write of the status, the insert of the history row.                 *)

\* the status writes made so far by the requests in flight
WritesDone == Cardinality({a \in RaceAdmins : requests[a].pos \in {"saved", "done"}})

\* get_object_or_404, old_status = booking.status, the check of the target
UpdateLoad(admin, id, new_status) ==
    /\ requests[admin].pos = "idle"
    /\ IF id \notin DOMAIN inquiries
       THEN /\ response' = Respond("update_status", "load_error")
            /\ UNCHANGED requests
       ELSE IF ~ValidStatus(new_status)
       THEN /\ response' = Respond("update_status", "invalid_status")
            /\ UNCHANGED requests
       ELSE /\ requests' = [requests EXCEPT ![admin] =
                               [pos |-> "loaded", id |-> id,
                                old_status |-> inquiries[id].status,
                                new_status |-> new_status, write_no |-> 0]]
            /\ UNCHANGED response
    /\ UNCHANGED <<inquiries, last_id, history, car_types, cars, now, gallery, mail>>

\* booking.save(update_fields=['status', 'updated_at'])
UpdateSave(admin) ==
    /\ requests[admin].pos = "loaded"
    /\ LET r == requests[admin]
       IN  IF r.id \notin DOMAIN inquiries
           THEN \* the row is gone: save raises, the outer except reports it
                /\ requests' = [requests EXCEPT ![admin] = IdleRequest]
                /\ response' = Respond("update_status", "error")
                /\ UNCHANGED inquiries
           ELSE /\ inquiries' = [inquiries EXCEPT ![r.id].status = r.new_status,
                                                  ![r.id].updated_at = now]
                /\ requests' = [requests EXCEPT ![admin].pos = "saved",
                                                ![admin].write_no = WritesDone + 1]
                /\ UNCHANGED response
    /\ UNCHANGED <<last_id, history, car_types, cars, now, gallery, mail>>

\* BookingStatusHistory.objects.create, messages.success
UpdateLog(admin) ==
    /\ requests[admin].pos = "saved"
    /\ Len(history) < MaxHistory
    /\ LET r == requests[admin]
       IN  history' = IF r.id \in DOMAIN inquiries
                      THEN Append(history,
                                  HistoryRow(r.id, r.old_status, r.new_status, admin))
                      ELSE history   \* the insert raises, the inner except swallows it
    /\ requests' = [requests EXCEPT ![admin].pos = "done"]
    /\ response' = Respond("update_status", "success")
    /\ UNCHANGED <<inquiries, last_id, car_types, cars, now, gallery, mail>>

----------------------------------------------------------------------------

BookingIds == 1 .. MaxBookings

\* a booking form that passes validation and names the car type of the catalog
PlainForm ==
    [tripType |-> "one-way", pickupDate |-> now, dropoffDate |-> NoTime,
     carType |-> "sedan", distance |-> "12", totalPrice |-> "12"]

\* the targets posted to update_status: none, an unknown one, the initial
\* status, one of a running booking and one of a finished booking
UpdateInputs == {"", "bogus", "pending", "confirmed", "completed"}

(* The status lifecycle: bookings are made through the create-booking      *)
(* endpoint and their status is changed in the custom admin.               *)
Next ==
    \/ Tick
    \/ last_id < MaxBookings /\ \E x \in OneSuffix, f \in NoFault : CreateBooking(PlainForm, x, f)
    \/ \E a \in Admins, id \in BookingIds, s \in UpdateInputs, f \in UpdateFaults :
          UpdateStatus(a, id, s, f)

Spec == Init /\ [][Next]_vars

(* The creation paths. *)
NextCreate ==
    \/ /\ last_id < MaxBookings
       /\ \E form \in BookingForms(CarTypeNameInputs), x \in SuffixInputs,
             f \in CreateFaults \ {"assign"} :
             CreateBooking(form, x, f)
    \/ /\ last_id < MaxBookings
       /\ \E form \in BookingForms({"sedan"}), x \in OneSuffix, f \in {"none", "history"} :
             BookingAPIPost(form, x, f)
    \/ /\ last_id < MaxBookings
       /\ \E c \in CarIdInputs, form \in BookingForms({"sedan"}), x \in OneSuffix,
             f \in {"none", "history", "assign"} :
             CarSpecificBooking(c, form, x, f)
    \/ /\ last_id < MaxBookings
       /\ \E form \in RestForms, x \in OneSuffix, f \in SaveFaults :
             RestCreate(form, x, f)
    \/ /\ last_id < MaxBookings
       /\ \E form \in SubmitForms, x \in OneSuffix, f \in SaveFaults :
             SubmitBooking(form, x, f)

SpecCreate == Init /\ [][NextCreate]_vars

\* what a REST client posts for the trip of PlainForm, with a status of its own
PlainRestForms ==
    [trip_type : {"one-way"}, datetime : {now}, return_datetime : {NoTime},
     car_type : {1}, status : {"cancelled", "bogus"},
     distance_km : PlainAmounts, price : PlainAmounts]

(* Every writer of an existing booking. *)
NextWriters ==
    \/ last_id < MaxBookings /\ \E x \in OneSuffix, f \in NoFault : CreateBooking(PlainForm, x, f)
    \/ \E a \in Admins, id \in BookingIds, s \in {"confirmed", "bogus"}, f \in NoFault :
          UpdateStatus(a, id, s, f)
    \/ \E id \in BookingIds, c \in CarIdInputs, f \in NoFault : AssignCar(id, c, f)
    \/ \E id \in BookingIds, f \in NoFault : RemoveCar(id, f)
    \/ \E id \in BookingIds, n \in NoteInputs, f \in NoFault : AddNote(id, n, f)
    \/ \E s \in BulkTargets, sel \in SUBSET (DOMAIN inquiries), f \in NoFault :
          MarkAs(s, sel, f)
    \/ \E id \in BookingIds, s \in {"", "completed", "bogus"}, f \in NoFault :
          RestPatch(id, s, f)

SpecWriters == Init /\ [][NextWriters]_vars

\* what the booking page posts for the trip of PlainForm
PlainSubmit ==
    [trip_type |-> "one-way", datetime |-> now, return_datetime |-> NoTime,
     car_type_id |-> 1, distance_km |-> "12", price |-> "12"]

\* the bookings of a store that holds one more than MaxBookings
StoredIds == 1 .. MaxBookings + 1

(* The store with several bookings: bookings of car 1 and bookings without *)
(* a car, made at the same second, and the deletion of bookings and of     *)
(* cars.                                                                   *)
NextStore ==
    \/ /\ last_id < MaxBookings + 1
       /\ \E x \in SuffixInputs, f \in NoFault : CarSpecificBooking(1, PlainForm, x, f)
    \/ /\ last_id < MaxBookings + 1
       /\ \E x \in SuffixInputs, f \in NoFault : SubmitBooking(PlainSubmit, x, f)
    \/ \E a \in Admins, id \in StoredIds, f \in NoFault :
          UpdateStatus(a, id, "completed", f)
    \/ \E c \in CarIdInputs, f \in NoFault : DeleteCar(c, f)
    \/ \E c \in CarIdInputs, f \in NoFault : AdminDeleteCar(c, f)
    \/ \E id \in StoredIds, f \in SaveFaults : RestDelete(id, f)

SpecStore == Init /\ [][NextStore]_vars

(* The statuses a booking can be given: by the serializer, by a REST       *)
(* client, by update_status, by the admin actions. *)
NextStatus ==
    \/ last_id < MaxBookings
          /\ \E x \in SuffixInputs, f \in NoFault : CreateBooking(PlainForm, x, f)
    \/ last_id < MaxBookings
          /\ \E form \in PlainRestForms, x \in OneSuffix, f \in NoFault :
                RestCreate(form, x, f)
    \/ \E a \in Admins, id \in BookingIds, s \in {"confirmed", "bogus"}, f \in NoFault :
          UpdateStatus(a, id, s, f)
    \/ \E s \in BulkTargets, sel \in SUBSET (DOMAIN inquiries), f \in NoFault :
          MarkAs(s, sel, f)
    \/ \E id \in BookingIds, s \in {"", "completed", "bogus"}, f \in NoFault :
          RestPatch(id, s, f)

SpecStatus == Init /\ [][NextStatus]_vars

(* update_status with every valid target. *)
NextGraph ==
    \/ last_id < MaxBookings
          /\ \E x \in SuffixInputs, f \in NoFault : CreateBooking(PlainForm, x, f)
    \/ \E a \in Admins, id \in BookingIds, s \in STATUS_CHOICES \cup {"bogus"},
          f \in {"none", "history"} :
          UpdateStatus(a, id, s, f)

SpecGraph == Init /\ [][NextGraph]_vars

(* The car of a booking. *)
NextCars ==
    \/ Tick
    \/ last_id < MaxBookings
          /\ \E x \in SuffixInputs, f \in NoFault : CreateBooking(PlainForm, x, f)
    \/ last_id < MaxBookings
          /\ \E c \in CarIdInputs, x \in OneSuffix, f \in {"none", "assign"} :
                CarSpecificBooking(c, PlainForm, x, f)
    \/ \E a \in Admins, id \in BookingIds, f \in NoFault :
          UpdateStatus(a, id, "confirmed", f)
    \/ \E id \in BookingIds, c \in CarIdInputs, f \in SaveFaults : AssignCar(id, c, f)
    \/ \E id \in BookingIds, f \in SaveFaults : RemoveCar(id, f)

SpecCars == Init /\ [][NextCars]_vars

(* The history table under the Django admin. *)
NextHistoryAdmin ==
    \/ last_id < MaxBookings /\ \E x \in OneSuffix, f \in NoFault : CreateBooking(PlainForm, x, f)
    \/ \E a \in Admins, id \in BookingIds, f \in NoFault :
          UpdateStatus(a, id, "confirmed", f)
    \/ \E i \in 1 .. MaxHistory, old \in {"", "pending"}, new \in {"cancelled"},
          by \in {"System"} :
          HistoryAdminChange(i, old, new, by)
    \/ \E i \in 1 .. MaxHistory : HistoryAdminDelete(i)
    \/ \E id \in BookingIds, f \in NoFault : RestDelete(id, f)

SpecHistoryAdmin == Init /\ [][NextHistoryAdmin]_vars

(* Two admin sessions changing the status of the same booking. *)
NextRace ==
    \/ Tick
    \/ last_id < MaxBookings /\ \E x \in OneSuffix, f \in NoFault : CreateBooking(PlainForm, x, f)
    \/ \E a \in RaceAdmins, id \in BookingIds, s \in {"confirmed", "completed", "bogus"} :
          UpdateLoad(a, id, s)
    \/ \E a \in RaceAdmins : UpdateSave(a)
    \/ \E a \in RaceAdmins : UpdateLog(a)

SpecRace == Init /\ [][NextRace]_vars

----------------------------------------------------------------------------
(* Properties of update_status *)

\* the last row of a table
LastRow(rows) == rows[Len(rows)]

\* C1: every update_status request on an existing booking with one of the five
\* valid targets that the handler answers with success appends exactly one
\* history row, whose old_status is the booking's status just before the
\* update and whose new_status is the target.
C1_ValidUpdateAppendsOneRow ==
    [][\A a \in Admins, id \in DOMAIN inquiries, s \in STATUS_CHOICES,
          f \in UpdateFaults :
          (UpdateStatus(a, id, s, f) /\ response'.result = "success")
             => /\ Len(history') = Len(history) + 1
                /\ SubSeq(history', 1, Len(history)) = history
                /\ LastRow(history').inquiry = id
                /\ LastRow(history').old_status = inquiries[id].status
                /\ LastRow(history').new_status = s]_vars

\* C2: an update_status request whose target is missing or is not one of the
\* five valid values changes no field of any booking (status and updated_at
\* included), appends no history row, and is answered with the invalid-status
\* error.
C2_InvalidUpdateChangesNothing ==
    [][\A a \in Admins, id \in DOMAIN inquiries, s \in UpdateInputs,
          f \in UpdateFaults :
          (s \notin STATUS_CHOICES /\ UpdateStatus(a, id, s, f))
             => /\ inquiries' = inquiries
                /\ history' = history
                /\ response' = Respond("update_status", "invalid_status")]_vars

\* C2's case: an invalid target was refused for a booking that exists, at a
\* time later than the booking's last write
C2_Witness ==
    /\ response = Respond("update_status", "invalid_status")
    /\ \E id \in DOMAIN inquiries :
          /\ inquiries[id].updated_at < now
          /\ HistoryOf(id) # <<>>

\* C3: the status write and the history insert of one update_status are one
\* atomic unit: after the request either the booking has the new status and
\* the matching row is in the log, or the store is as it was.
C3_UpdateIsAtomic ==
    [][\A a \in Admins, id \in DOMAIN inquiries, s \in STATUS_CHOICES,
          f \in UpdateFaults :
          UpdateStatus(a, id, s, f)
             => \/ /\ inquiries'[id].status = s
                   /\ history' = Append(history,
                                        HistoryRow(id, inquiries[id].status, s, a))
                \/ /\ inquiries' = inquiries
                   /\ history' = history]_vars

\* C4: after any sequence of writes to a booking, its status is the
\* new_status of its most recent history row.
C4_StatusIsLatestRow ==
    \A id \in DOMAIN inquiries :
        /\ HistoryOf(id) # <<>>
        /\ LastRow(HistoryOf(id)).new_status = inquiries[id].status

----------------------------------------------------------------------------
(* Properties of the creation paths *)

\* a step of one of the three endpoints built on BookingCreateSerializer
SerializerStep(form) ==
    \E x \in SuffixInputs, f \in CreateFaults :
        \/ CreateBooking(form, x, f)
        \/ BookingAPIPost(form, x, f)
        \/ \E c \in CarIdInputs : CarSpecificBooking(c, form, x, f)

\* a step of the default POST of InquiryViewSet
RestStep(form) == \E x \in SuffixInputs, f \in SaveFaults : RestCreate(form, x, f)

\* a step of submit_booking
SubmitStep(form) == \E x \in SuffixInputs, f \in SaveFaults : SubmitBooking(form, x, f)

\* the step was answered as a creation
Created == response'.result = "created"

\* the step was answered with a storage error
StorageError == response'.result = "error"

\* the step left no booking and no history row behind and was refused
NothingCreated ==
    /\ inquiries' = inquiries
    /\ history' = history
    /\ ~Created

\* the rows of a log that record a creation
CreationRows(rows) == {i \in 1 .. Len(rows) : rows[i].old_status = ""}

\* the step added a booking, which is 'pending' and has the creation row of a
\* customer as its only row
NewBookingPendingWithOneRow ==
    /\ last_id' \notin DOMAIN inquiries
    /\ last_id' \in DOMAIN inquiries'
    /\ inquiries'[last_id'].status = "pending"
    /\ SelectRows(history', last_id') =
          <<[inquiry |-> last_id', old_status |-> "",
             new_status |-> "pending", changed_by |-> "Customer"]>>

\* C5: a booking created successfully through BookingCreateSerializer.create
\* (create-booking, the legacy /api/bookings/ endpoint, car_specific_booking)
\* has status 'pending' and exactly one history row, with old_status '',
\* new_status 'pending' and changed_by 'Customer'.  (Stated by contraposition:
\* a creation that leaves anything else is not a step of these endpoints.)
C5_SerializerCreatesPendingWithOneRow ==
    [][\A form \in BookingForms(CarTypeNameInputs) :
          (Created /\ ~NewBookingPendingWithOneRow) => ~SerializerStep(form)]_vars

\* C5's case: the serializer answered a creation, and the booking it made is
\* in the store with its log
C5_Witness ==
    /\ response.result = "created"
    /\ response.op \in {"create_booking", "booking_api", "car_booking"}
    /\ last_id \in DOMAIN inquiries
    /\ inquiries[last_id].status = "pending"
    /\ Len(HistoryOf(last_id)) = 1

\* C6: every booking, whichever creation path made it (the serializer, the
\* default POST of InquiryViewSet, submit_booking), starts in status 'pending'
\* and owns exactly one creation row ('' to 'pending'), the oldest of its log.
C6_EveryBookingStartsPendingWithCreationRow ==
    [][((\E form \in BookingForms(CarTypeNameInputs) : SerializerStep(form))
           \/ (\E form \in RestForms : RestStep(form))
           \/ (\E form \in SubmitForms : SubmitStep(form)))
       /\ Created
          => /\ last_id' \in DOMAIN inquiries'
             /\ inquiries'[last_id'].status = "pending"
             /\ LET log == SelectRows(history', last_id')
                IN  /\ CreationRows(log) = {1}
                    /\ log[1].new_status = "pending"]_vars

\* C7: when a creation reports a storage error, nothing of it is persisted:
\* neither the booking nor a history row.
C7_FailedCreationLeavesNothing ==
    [][((\E form \in BookingForms(CarTypeNameInputs) : SerializerStep(form))
           \/ (\E form \in RestForms : RestStep(form))
           \/ (\E form \in SubmitForms : SubmitStep(form)))
       /\ StorageError
          => /\ inquiries' = inquiries
             /\ history' = history]_vars

\* C8: a creation request for a round trip without a return date is refused,
\* and creates no booking and no history row.
C8_RoundTripNeedsReturn ==
    [][/\ \A form \in BookingForms(CarTypeNameInputs) :
             (form.tripType = "round-trip" /\ form.dropoffDate = NoTime
                 /\ SerializerStep(form) /\ ~StorageError) => NothingCreated
       /\ \A form \in RestForms :
             (form.trip_type = "round-trip" /\ form.return_datetime = NoTime
                 /\ RestStep(form) /\ ~StorageError) => NothingCreated
       /\ \A form \in SubmitForms :
             (form.trip_type = "round-trip" /\ form.return_datetime = NoTime
                 /\ SubmitStep(form) /\ ~StorageError) => NothingCreated]_vars

\* C9: a creation request of any trip kind whose return date is given and is
\* not strictly after its pickup date is refused, and creates no booking.
C9_ReturnAfterPickup ==
    [][/\ \A form \in BookingForms(CarTypeNameInputs) :
             (form.dropoffDate # NoTime /\ form.dropoffDate <= form.pickupDate
                 /\ SerializerStep(form) /\ ~StorageError) => NothingCreated
       /\ \A form \in RestForms :
             (form.return_datetime # NoTime
                 /\ form.return_datetime <= form.datetime
                 /\ RestStep(form) /\ ~StorageError) => NothingCreated
       /\ \A form \in SubmitForms :
             (form.return_datetime # NoTime
                 /\ form.return_datetime <= form.datetime
                 /\ SubmitStep(form) /\ ~StorageError) => NothingCreated]_vars

\* C10: a creation request whose pickup time is earlier than the time of
\* submission is refused on every creation path, and creates no booking.
C10_PickupNotInPast ==
    [][/\ \A form \in BookingForms(CarTypeNameInputs) :
             (form.pickupDate < now /\ SerializerStep(form) /\ ~StorageError) => NothingCreated
       /\ \A form \in RestForms :
             (form.datetime < now /\ RestStep(form) /\ ~StorageError) => NothingCreated
       /\ \A form \in SubmitForms :
             (form.datetime < now /\ SubmitStep(form) /\ ~StorageError) => NothingCreated]_vars

----------------------------------------------------------------------------
(* Properties of the store *)

\* C11: every booking has a non-empty booking_id, no two bookings share one
\* (a creation that draws the timestamp and the suffix of an existing booking
\* is refused by the unique index), and no step changes the booking_id of a
\* booking that exists before and after it.
C11_BookingIdUniqueAndImmutable ==
    /\ [](\A id \in DOMAIN inquiries :
             /\ inquiries[id].booking_id # NoBookingId
             /\ \A other \in DOMAIN inquiries :
                   other # id => inquiries[other].booking_id # inquiries[id].booking_id)
    /\ [][\A id \in DOMAIN inquiries \cap DOMAIN inquiries' :
             inquiries'[id].booking_id = inquiries[id].booking_id]_vars

\* C11's case: a creation drew the booking_id of the booking in the store and
\* was refused
C11_Witness ==
    /\ response \in {Respond("car_booking", "error"),
                     Respond("submit_booking", "error")}
    /\ \E id \in DOMAIN inquiries :
          \E suffix \in SuffixInputs :
              inquiries[id].booking_id = GeneratedBookingId(suffix)

\* a step of any of the creation paths
CreationStep ==
    \/ \E form \in BookingForms(CarTypeNameInputs) : SerializerStep(form)
    \/ \E form \in RestForms : RestStep(form)
    \/ \E form \in SubmitForms : SubmitStep(form)

\* a step of the serializer's endpoints in which the SMTP session fails
SmtpFailureStep ==
    \E form \in BookingForms(CarTypeNameInputs), x \in SuffixInputs :
        \/ CreateBooking(form, x, "smtp")
        \/ BookingAPIPost(form, x, "smtp")
        \/ \E c \in CarIdInputs : CarSpecificBooking(c, form, x, "smtp")

\* C12: every creation answered as a success has called the notification
\* exactly once, and a creation whose notification was called and failed is
\* still answered as a success, with the booking and its initial history row
\* in the store.
C12_NotifiedOncePerCreate ==
    [][/\ (CreationStep /\ Created) => mail'.invoked = mail.invoked + 1
       /\ (SmtpFailureStep /\ mail'.invoked = mail.invoked + 1)
             => /\ Created
                /\ mail'.sent = mail.sent
                /\ last_id' \in DOMAIN inquiries' \ DOMAIN inquiries
                /\ SelectRows(history', last_id') = <<CreatedHistory(last_id')>>]_vars

\* a is an initial segment of b
IsPrefix(a, b) == Len(a) <= Len(b) /\ SubSeq(b, 1, Len(a)) = a

\* C13: the log is append-only: across every step, the rows of every booking
\* that still exists are the rows it had before, unchanged and in the same
\* order, possibly followed by new ones; rows disappear only with their
\* booking.
C13_HistoryIsAppendOnly ==
    [][\A id \in DOMAIN inquiries \cap DOMAIN inquiries' :
          IsPrefix(SelectRows(history, id), SelectRows(history', id))]_vars

----------------------------------------------------------------------------
(* Properties of the status *)

\* the requests of both sessions are finished and were for the same booking
BothDone(a, b) ==
    /\ a # b
    /\ requests[a].pos = "done" /\ requests[b].pos = "done"
    /\ requests[a].id = requests[b].id
    /\ requests[a].id \in DOMAIN inquiries

\* C14: when two update_status requests for one booking interleave, the
\* booking ends with the target of the request that wrote the status last, and
\* the log holds one row per request, in the order of the status writes.
C14_LastWriteWinsAndLogInWriteOrder ==
    \A a, b \in RaceAdmins :
        (BothDone(a, b) /\ requests[a].write_no < requests[b].write_no)
           => LET id == requests[a].id
                  log == HistoryOf(id)
              IN  /\ inquiries[id].status = requests[b].new_status
                  /\ Len(log) = 3
                  /\ log[2].changed_by = a /\ log[2].new_status = requests[a].new_status
                  /\ log[3].changed_by = b /\ log[3].new_status = requests[b].new_status

\* C15: the status of every booking is one of the five values of
\* STATUS_CHOICES, whatever creations, update_status requests, admin bulk
\* actions and REST create and PATCH requests with statuses of the client's
\* choosing were made.
C15_StatusInClosedSet ==
    \A id \in DOMAIN inquiries : inquiries[id].status \in STATUS_CHOICES

\* C15's case: a PATCH with an unknown status was refused for a booking whose
\* status had been changed before
C15_Witness ==
    /\ response = Respond("rest_patch", "validation_error")
    /\ \E id \in DOMAIN inquiries : inquiries[id].status # "pending"

\* C16: update_status checks no transition graph: from every status of a
\* booking, a request for any of the five valid targets can be made and, when
\* the status write does not fail, is answered with success and makes the
\* target the booking's status.
C16_AnyValidTargetAccepted ==
    /\ [](\A a \in Admins, id \in DOMAIN inquiries, s \in STATUS_CHOICES :
             Len(history) < MaxHistory
                => ENABLED (/\ UpdateStatus(a, id, s, "none")
                            /\ inquiries'[id].status = s
                            /\ response' = Respond("update_status", "success")))
    /\ [][\A a \in Admins, id \in DOMAIN inquiries, s \in STATUS_CHOICES,
             f \in {"none", "history"} :
             UpdateStatus(a, id, s, f)
                => /\ inquiries'[id].status = s
                   /\ response' = Respond("update_status", "success")]_vars

\* C16's case: a finished booking was put back to 'pending'
C16_Witness ==
    \E id \in DOMAIN inquiries :
        /\ inquiries[id].status = "pending"
        /\ response = Respond("update_status", "success")
        /\ LastRow(HistoryOf(id)).old_status \in {"completed", "cancelled"}
        /\ LastRow(HistoryOf(id)).new_status = "pending"

\* C17: an update_status request whose target is the status the booking
\* already has (the second of two equal requests in a row) and that is
\* answered with success appends one more row, with old_status and new_status
\* both equal to the target.
C17_RepeatedUpdateAppendsRow ==
    [][\A a \in Admins, id \in DOMAIN inquiries, s \in STATUS_CHOICES,
          f \in UpdateFaults :
          (/\ inquiries[id].status = s
           /\ HistoryOf(id) # <<>>
           /\ LastRow(HistoryOf(id)).new_status = s
           /\ LastRow(HistoryOf(id)).old_status # ""
           /\ UpdateStatus(a, id, s, f)
           /\ response'.result = "success")
             => history' = Append(history, HistoryRow(id, s, s, a))]_vars

----------------------------------------------------------------------------
(* Properties of car assignment and of deletions *)

\* the step keeps every booking and its status
StatusesKept ==
    /\ DOMAIN inquiries' = DOMAIN inquiries
    /\ \A id \in DOMAIN inquiries : inquiries'[id].status = inquiries[id].status

\* C18: assigning a car to a booking or clearing it (assign_car and remove_car
\* of the custom admin, the assignment made by car_specific_booking) changes no
\* status and appends no history row: after assign_car and remove_car the
\* statuses and the log are as before, and a booking made by
\* car_specific_booking is 'pending' with the creation row as the only new row.
C18_CarAssignmentKeepsStatusAndLog ==
    [][/\ \A id \in BookingIds, c \in CarIdInputs, f \in SaveFaults :
             AssignCar(id, c, f) => (StatusesKept /\ history' = history)
       /\ \A id \in BookingIds, f \in SaveFaults :
             RemoveCar(id, f) => (StatusesKept /\ history' = history)
       /\ \A c \in CarIdInputs, x \in SuffixInputs, f \in CreateFaults :
             (Created /\ CarSpecificBooking(c, PlainForm, x, f))
                => /\ inquiries'[last_id'].status = "pending"
                   /\ history' = Append(history, CreatedHistory(last_id'))]_vars

\* C18's case: a car was assigned to a booking whose status had been changed
C18_Witness ==
    /\ response = Respond("assign_car", "success")
    /\ \E id \in DOMAIN inquiries :
          /\ inquiries[id].assigned_car # NoCar
          /\ inquiries[id].status # "pending"
          /\ Len(HistoryOf(id)) >= 2

\* C19: deleting a booking removes all of its history rows and only its own:
\* afterwards the booking is gone, no row references it, and every other
\* booking and its rows are unchanged.
C19_DeleteCascadesToOwnRows ==
    [][\A id \in StoredIds, f \in SaveFaults :
          (RestDelete(id, f) /\ response'.result = "deleted")
             => /\ id \notin DOMAIN inquiries'
                /\ SelectRows(history', id) = <<>>
                /\ \A other \in DOMAIN inquiries \ {id} :
                      /\ other \in DOMAIN inquiries'
                      /\ inquiries'[other] = inquiries[other]
                      /\ SelectRows(history', other) = SelectRows(history, other)]_vars

\* C19's case: one of two bookings was deleted, the other is in the store with
\* the rows of its creation and of a status change
C19_Witness ==
    /\ response = Respond("rest_delete", "deleted")
    /\ last_id = 2
    /\ \E other \in DOMAIN inquiries :
          /\ DOMAIN inquiries = {other}
          /\ Len(HistoryOf(other)) = 2
          /\ Len(history) = 2

\* C20: no booking references a car that is not in the Car table, and a
\* deletion of a car (custom admin or Django admin) removes the car, clears
\* assigned_car on the bookings that referenced it and changes nothing else:
\* every booking is still there with its other fields, and the log is as it
\* was.
C20_CarDeleteClearsAssignments ==
    /\ [](\A id \in DOMAIN inquiries :
             inquiries[id].assigned_car = NoCar
                \/ inquiries[id].assigned_car \in DOMAIN cars)
    /\ [][\A c \in CarIdInputs, f \in SaveFaults :
             ((DeleteCar(c, f) \/ AdminDeleteCar(c, f)) /\ response'.result = "deleted")
                => /\ c \notin DOMAIN cars'
                   /\ DOMAIN inquiries' = DOMAIN inquiries
                   /\ \A id \in DOMAIN inquiries :
                         inquiries'[id] =
                            [inquiries[id] EXCEPT
                                !.assigned_car = IF @ = c THEN NoCar ELSE @]
                   /\ history' = history]_vars

\* C20's case: car 1 was deleted, and a booking that car_specific_booking made
\* for it (the only bookings with a creation row here) is in the store
\* without a car
C20_Witness ==
    /\ response.result = "deleted"
    /\ response.op \in {"delete_car", "admin_delete_car"}
    /\ 1 \notin DOMAIN cars
    /\ \E id \in DOMAIN inquiries :
          /\ HistoryOf(id) # <<>>
          /\ HistoryOf(id)[1].old_status = ""
          /\ inquiries[id].assigned_car = NoCar

----------------------------------------------------------------------------
(* The amounts of a booking *)

\* a booking form with the trip of PlainForm and amounts of its own
AmountBookingForms ==
    [tripType : {"one-way"}, pickupDate : {now}, dropoffDate : {NoTime},
     carType : {"sedan"}, distance : AmountInputs, totalPrice : AmountInputs]

\* what a REST client posts for the trip of PlainForm, with amounts of its own
AmountRestForms ==
    [trip_type : {"one-way"}, datetime : {now}, return_datetime : {NoTime},
     car_type : {1}, status : {""},
     distance_km : AmountInputs \cup {Absent}, price : AmountInputs \cup {Absent}]

\* what the booking page posts for the trip of PlainForm, with amounts of its own
AmountSubmitForms ==
    [trip_type : {"one-way"}, datetime : {now}, return_datetime : {NoTime},
     car_type_id : {1}, distance_km : AmountInputs, price : AmountInputs]

\* the PATCH payloads that carry amounts
AmountPayloads ==
    [status : {""}, distance_km : AmountInputs \cup {Absent},
     price : AmountInputs \cup {Absent}]

(* Every path that writes the distance or the price of a booking. *)
NextAmounts ==
    \/ Tick
    \/ last_id < MaxBookings
          /\ \E form \in AmountBookingForms, x \in OneSuffix, f \in NoFault :
                CreateBooking(form, x, f)
    \/ last_id < MaxBookings
          /\ \E form \in AmountRestForms, x \in OneSuffix, f \in NoFault :
                RestCreate(form, x, f)
    \/ last_id < MaxBookings
          /\ \E form \in AmountSubmitForms, x \in OneSuffix, f \in NoFault :
                SubmitBooking(form, x, f)
    \/ \E id \in BookingIds, payload \in AmountPayloads, f \in NoFault :
          RestPartialUpdate(id, payload, f)

SpecAmounts == Init /\ [][NextAmounts]_vars

\* C21: the distance and the price of every booking in the store are
\* non-negative, whichever creation or update path wrote them.
C21_AmountsNonNegative ==
    \A id \in DOMAIN inquiries :
       /\ inquiries[id].distance_km >= 0
       /\ inquiries[id].price >= 0

----------------------------------------------------------------------------
(* The timestamps of a booking *)

(* The writers of an existing booking while the clock advances. *)
NextTimestamps ==
    \/ Tick
    \/ last_id < MaxBookings
          /\ \E c \in {NoCar, 1}, x \in OneSuffix, f \in NoFault :
                CarSpecificBooking(c, PlainForm, x, f)
    \/ \E a \in Admins, id \in BookingIds, f \in NoFault :
          UpdateStatus(a, id, "confirmed", f)
    \/ \E id \in BookingIds, c \in {1}, f \in NoFault : AssignCar(id, c, f)
    \/ \E id \in BookingIds, f \in NoFault : RemoveCar(id, f)
    \/ \E id \in BookingIds, n \in NoteInputs, f \in NoFault : AddNote(id, n, f)
    \/ \E s \in {"completed"}, sel \in SUBSET (DOMAIN inquiries), f \in NoFault :
          MarkAs(s, sel, f)

SpecTimestamps == Init /\ [][NextTimestamps]_vars

\* C22: created_at of a booking never changes, a booking enters the store with
\* both timestamps at the time of its creation, and every step that changes a
\* field of a booking leaves its updated_at at the time of the step.
C22_TimestampsMaintained ==
    [][/\ \A id \in DOMAIN inquiries \cap DOMAIN inquiries' :
             /\ inquiries'[id].created_at = inquiries[id].created_at
             /\ inquiries'[id] # inquiries[id] => inquiries'[id].updated_at = now
       /\ \A id \in DOMAIN inquiries' \ DOMAIN inquiries :
             /\ inquiries'[id].created_at = now
             /\ inquiries'[id].updated_at = now]_vars

----------------------------------------------------------------------------
(* Requests that name a booking or a car *)

\* custom_admin_booking_detail, a GET: the page of the booking, or the
\* redirect to the list when the load raises
BookingDetailPage(id) ==
    /\ response' = Respond("booking_detail",
                           IF id \in DOMAIN inquiries THEN "page" ELSE "load_error")
    /\ UNCHANGED <<inquiries, last_id, history, car_types, cars, now, gallery, mail, requests>>

\* the booking_id parameters of a lookup: none, the id of a booking made at
\* time 1, an id that was never issued
LookupInputs == {NoBookingId, <<"JTT", 1, "0000">>, <<"JTT", 0, "9999">>}

\* InquiryViewSet.get_by_booking_id
GetByBookingId(booking_id) ==
    /\ response' = Respond("by_booking_id",
                           IF booking_id = NoBookingId THEN "bad_request"
                           ELSE IF BookingIdTaken(booking_id) THEN "found"
                           ELSE "not_found")
    /\ UNCHANGED <<inquiries, last_id, history, car_types, cars, now, gallery, mail, requests>>

(* Lookups and assignments by id. *)
NextLookup ==
    \/ Tick
    \/ last_id < MaxBookings
          /\ \E c \in CarIdInputs, x \in OneSuffix, f \in NoFault :
                CarSpecificBooking(c, PlainForm, x, f)
    \/ \E id \in StoredIds : BookingDetailPage(id)
    \/ \E id \in StoredIds, c \in CarIdInputs, f \in SaveFaults : AssignCar(id, c, f)
    \/ \E b \in LookupInputs : GetByBookingId(b)

SpecLookup == Init /\ [][NextLookup]_vars

\* the answer that tells the caller the referenced row does not exist
NotFoundOutcome == response'.result = "not_found" /\ UNCHANGED <<inquiries, history>>

\* C23: a request that names a booking or a car that is not in the store (the
\* booking detail page or assign_car for an unknown booking, assign_car with
\* an unknown car, the by-booking-id lookup, car_specific_booking with an
\* unknown car) is answered with a not-found outcome and leaves every booking
\* and every history row as it was.
C23_UnknownReferenceIsNotFound ==
    [][/\ \A id \in StoredIds \ DOMAIN inquiries :
             /\ BookingDetailPage(id) => NotFoundOutcome
             /\ \A c \in CarIdInputs, f \in SaveFaults :
                   AssignCar(id, c, f) => NotFoundOutcome
       /\ \A id \in DOMAIN inquiries, c \in CarIdInputs \ (DOMAIN cars \cup {NoCar}),
             f \in SaveFaults :
             AssignCar(id, c, f) => NotFoundOutcome
       /\ \A b \in LookupInputs \ {NoBookingId} :
             (GetByBookingId(b) /\ ~BookingIdTaken(b)) => NotFoundOutcome
       /\ \A c \in CarIdInputs \ (DOMAIN cars \cup {NoCar}), x \in OneSuffix,
             f \in NoFault :
             CarSpecificBooking(c, PlainForm, x, f) => NotFoundOutcome]_vars

----------------------------------------------------------------------------
(* The cars of several bookings *)

(* Two bookings and the requests that give a booking its car. *)
NextFleet ==
    \/ last_id < MaxBookings + 1
          /\ \E x \in SuffixInputs, f \in NoFault : CreateBooking(PlainForm, x, f)
    \/ last_id < MaxBookings + 1
          /\ \E c \in CarIdInputs, x \in SuffixInputs, f \in NoFault :
                CarSpecificBooking(c, PlainForm, x, f)
    \/ \E a \in Admins, id \in StoredIds, s \in {"confirmed", "completed"}, f \in NoFault :
          UpdateStatus(a, id, s, f)
    \/ \E id \in StoredIds, c \in CarIdInputs, f \in NoFault : AssignCar(id, c, f)

SpecFleet == Init /\ [][NextFleet]_vars

\* C24: no car is the assigned car of two bookings that are both in an active
\* status (pending, confirmed or in_progress).
C24_NoCarOnTwoActiveBookings ==
    \A c \in DOMAIN cars : Cardinality(ActiveBookingsOf(c)) <= 1

----------------------------------------------------------------------------
(* custom_admin_cars, action 'delete_car', as the steps that other requests *)
(* can interleave: the load of the car with the count of its active        *)
(* bookings, and the delete.                                               *)

\* get_object_or_404(Car, ...), the count of the active bookings, the refusal
DeleteCarCheck(admin, car_id) ==
    /\ requests[admin].pos = "idle"
    /\ IF car_id = NoCar
       THEN /\ response' = Respond("delete_car", "missing_id")
            /\ UNCHANGED requests
       ELSE IF car_id \notin DOMAIN cars
       THEN /\ response' = Respond("delete_car", "error")
            /\ UNCHANGED requests
       ELSE IF ActiveBookingsOf(car_id) # {}
       THEN /\ response' = Respond("delete_car", "refused")
            /\ UNCHANGED requests
       ELSE /\ requests' = [requests EXCEPT ![admin] =
                               [IdleRequest EXCEPT !.pos = "checked", !.id = car_id]]
            /\ UNCHANGED response
    /\ UNCHANGED <<inquiries, last_id, history, car_types, cars, now, gallery, mail>>

\* car.delete(), messages.success
DeleteCarCommit(admin) ==
    /\ requests[admin].pos = "checked"
    /\ CarDeleted(requests[admin].id)
    /\ requests' = [requests EXCEPT ![admin] = IdleRequest]
    /\ response' = Respond("delete_car", "deleted")
    /\ UNCHANGED <<last_id, history, car_types, now, gallery, mail>>

(* The deletion of a car while its bookings are being worked on. *)
NextCarRace ==
    \/ last_id < MaxBookings
          /\ \E x \in OneSuffix, f \in NoFault : CreateBooking(PlainForm, x, f)
    \/ \E a \in Admins, id \in BookingIds, s \in {"pending", "completed"}, f \in NoFault :
          UpdateStatus(a, id, s, f)
    \/ \E id \in BookingIds, c \in CarIdInputs, f \in NoFault : AssignCar(id, c, f)
    \/ \E a \in Admins, c \in CarIdInputs : DeleteCarCheck(a, c)
    \/ \E a \in Admins : DeleteCarCommit(a)

SpecCarRace == Init /\ [][NextCarRace]_vars

\* C25: delete_car never deletes a car that is the assigned car of a booking
\* in status pending, confirmed or in_progress, whatever runs between its
\* check and its delete; a request that finds such a booking leaves the cars
\* and the bookings unchanged.
C25_DeleteCarSparesActiveCars ==
    [][/\ \A a \in Admins, c \in DOMAIN cars :
             (DeleteCarCommit(a) /\ c \notin DOMAIN cars')
                => ActiveBookingsOf(c) = {}
       /\ \A a \in Admins, c \in DOMAIN cars :
             (DeleteCarCheck(a, c) /\ ActiveBookingsOf(c) # {})
                => /\ response' = Respond("delete_car", "refused")
                   /\ UNCHANGED <<cars, inquiries, requests>>]_vars

\* C26: car_specific_booking with the id of a car that does not exist or is
\* not available creates no booking and no history row and sends no
\* notification, and a booking that the request adds to the store for a
\* car_id is assigned exactly that car.
C26_CarBookingHonoursCar ==
    [][\A c \in CarIdInputs \ {NoCar}, x \in SuffixInputs, f \in CreateFaults :
          CarSpecificBooking(c, PlainForm, x, f)
             => IF c \notin DOMAIN cars \/ ~cars[c].is_available
                THEN /\ UNCHANGED <<inquiries, last_id, history, mail>>
                     /\ ~Created
                ELSE last_id' # last_id
                        => inquiries'[last_id'].assigned_car = c]_vars

----------------------------------------------------------------------------
(* The gallery *)

\* None in a nullable column of the Gallery table
None == "None"

\* request.FILES.get(...) when no file was uploaded
NoFile == [name |-> "", content_type |-> "", data |-> ""]

\* the uploads in play: an image, a video, a document
ImageFile == [name |-> "car.jpg", content_type |-> "image/jpeg", data |-> "jpeg bytes"]
VideoFile == [name |-> "tour.mp4", content_type |-> "video/mp4", data |-> "mp4 bytes"]
OtherFile == [name |-> "list.pdf", content_type |-> "application/pdf", data |-> "pdf bytes"]
FileInputs == {NoFile, ImageFile, VideoFile, OtherFile}

\* content_type.startswith('image/'), content_type.startswith('video/')
IsImageType(content_type) == content_type \in {"image/jpeg"}
IsVideoType(content_type) == content_type \in {"video/mp4"}

\* the display_order values a form may carry
OrderInputs == {"", "0", "-1", "first"}

\* int(display_order) raises ValueError on text that is no number
IsInt(text) == text \in {"0", "-1"}

\* int(display_order) if display_order else 0
OrderOf(text) ==
    CASE text = "" -> 0
      [] text = "0" -> 0
      [] text = "-1" -> -1

TitleInputs == {"", "Fleet"}

\* Gallery.objects.create(title=..., display_order=...): no image, no video
GalleryRow(title, display_order) ==
    [title |-> title, display_order |-> display_order,
     image_data |-> None, image_filename |-> None, image_content_type |-> None,
     video_data |-> None, video_filename |-> None, video_content_type |-> None]

\* the method without the removal of the old video
set_image_from_file_KeepVideo(row, uploaded_file) ==
    IF uploaded_file = NoFile THEN row
    ELSE [row EXCEPT !.image_data = uploaded_file.data,
                     !.image_filename = uploaded_file.name,
                     !.image_content_type = uploaded_file.content_type]

\* Gallery.set_image_from_file
set_image_from_file(row, uploaded_file) ==
    IF uploaded_file = NoFile THEN row
    ELSE [row EXCEPT !.video_data = None,
                     !.video_filename = None,
                     !.video_content_type = None,
                     !.image_data = uploaded_file.data,
                     !.image_filename = uploaded_file.name,
                     !.image_content_type = uploaded_file.content_type]

\* Gallery.set_video_from_file
set_video_from_file(row, uploaded_file) ==
    IF uploaded_file = NoFile THEN row
    ELSE [row EXCEPT !.image_data = None,
                     !.image_filename = None,
                     !.image_content_type = None,
                     !.video_data = uploaded_file.data,
                     !.video_filename = uploaded_file.name,
                     !.video_content_type = uploaded_file.content_type]

NewGalleryId == MaxOf(DOMAIN gallery) + 1

\* custom_admin_gallery, action 'add_gallery_item'; ajax tells whether the
\* request carries X-Requested-With: XMLHttpRequest
AddGalleryItem(title, display_order, gallery_file, ajax, fault) ==
    /\ IF title = "" \/ gallery_file = NoFile
       THEN /\ response' = Respond("add_gallery_item", "missing_fields")
            /\ UNCHANGED gallery
       ELSE IF ~(display_order = "" \/ IsInt(display_order))
       THEN /\ response' = Respond("add_gallery_item", "invalid_order")
            /\ UNCHANGED gallery
       ELSE IF OrderOf(display_order) < 0
       THEN /\ response' = Respond("add_gallery_item", "negative_order")
            /\ UNCHANGED gallery
       ELSE IF fault = "create"
       THEN /\ response' = Respond("add_gallery_item", "error")
            /\ UNCHANGED gallery
       ELSE LET created == GalleryRow(title, OrderOf(display_order))
                filled == IF IsImageType(gallery_file.content_type)
                          THEN set_image_from_file(created, gallery_file)
                          ELSE IF IsVideoType(gallery_file.content_type)
                          THEN set_video_from_file(created, gallery_file)
                          ELSE created
                supported == \/ IsImageType(gallery_file.content_type)
                             \/ IsVideoType(gallery_file.content_type)
            IN  IF ~supported /\ ajax
                THEN \* the JSON error is returned after the row was created
                     /\ gallery' = gallery @@ (NewGalleryId :> created)
                     /\ response' = Respond("add_gallery_item", "unsupported_file")
                ELSE IF fault = "save"
                THEN \* gallery_item.save raises after the row was created
                     /\ gallery' = gallery @@ (NewGalleryId :> created)
                     /\ response' = Respond("add_gallery_item", "error")
                ELSE /\ gallery' = gallery @@ (NewGalleryId :> filled)
                     /\ response' = Respond("add_gallery_item",
                                            IF supported THEN "added"
                                            ELSE "unsupported_file_added")
    /\ UNCHANGED <<inquiries, last_id, history, car_types, cars, now, mail, requests>>

\* custom_admin_gallery, action 'edit_gallery_item'
EditGalleryItem(id, title, display_order, gallery_file, ajax, fault) ==
    /\ IF id = 0 \/ title = ""
       THEN /\ response' = Respond("edit_gallery_item", "missing_fields")
            /\ UNCHANGED gallery
       ELSE IF ~(display_order = "" \/ IsInt(display_order))
       THEN /\ response' = Respond("edit_gallery_item", "invalid_order")
            /\ UNCHANGED gallery
       ELSE IF OrderOf(display_order) < 0
       THEN /\ response' = Respond("edit_gallery_item", "negative_order")
            /\ UNCHANGED gallery
       ELSE IF id \notin DOMAIN gallery
       THEN \* get_object_or_404 raises, caught by the action
            /\ response' = Respond("edit_gallery_item", "error")
            /\ UNCHANGED gallery
       ELSE LET edited == [gallery[id] EXCEPT !.title = title,
                                              !.display_order = OrderOf(display_order)]
                supported == \/ gallery_file = NoFile
                             \/ IsImageType(gallery_file.content_type)
                             \/ IsVideoType(gallery_file.content_type)
                filled ==
                   IF gallery_file = NoFile THEN edited
                   ELSE IF IsImageType(gallery_file.content_type)
                   THEN [set_image_from_file(edited, gallery_file) EXCEPT
                            !.video_filename = None,
                            !.video_content_type = None,
                            !.video_data = None]
                   ELSE IF IsVideoType(gallery_file.content_type)
                   THEN [set_video_from_file(edited, gallery_file) EXCEPT
                            !.image_filename = None,
                            !.image_content_type = None,
                            !.image_data = None]
                   ELSE edited
            IN  IF ~supported /\ ajax
                THEN /\ response' = Respond("edit_gallery_item", "unsupported_file")
                     /\ UNCHANGED gallery
                ELSE IF fault = "save"
                THEN /\ response' = Respond("edit_gallery_item", "error")
                     /\ UNCHANGED gallery
                ELSE /\ gallery' = [gallery EXCEPT ![id] = filled]
                     /\ response' = Respond("edit_gallery_item",
                                            IF supported THEN "updated"
                                            ELSE "unsupported_file_updated")
    /\ UNCHANGED <<inquiries, last_id, history, car_types, cars, now, mail, requests>>

\* GalleryAdmin.save_model on the change form with an image_upload, the other
\* fields posted back as they were; forms.ImageField accepts images only
GalleryAdminUpload(id, uploaded_file) ==
    /\ IF id \notin DOMAIN gallery
       THEN /\ response' = Respond("admin_gallery_change", "not_found")
            /\ UNCHANGED gallery
       ELSE IF uploaded_file # NoFile /\ ~IsImageType(uploaded_file.content_type)
       THEN /\ response' = Respond("admin_gallery_change", "validation_error")
            /\ UNCHANGED gallery
       ELSE /\ gallery' = [gallery EXCEPT ![id] = set_image_from_file(@, uploaded_file)]
            /\ response' = Respond("admin_gallery_change", "success")
    /\ UNCHANGED <<inquiries, last_id, history, car_types, cars, now, mail, requests>>

MaxItems == 2
GalleryIds == 0 .. MaxItems
GalleryFaults == {"none", "create", "save"}

(* The gallery administration. *)
NextGallery ==
    \/ /\ Cardinality(DOMAIN gallery) < MaxItems
       /\ \E t \in TitleInputs, o \in OrderInputs, file \in FileInputs, ajax \in BOOLEAN,
             f \in GalleryFaults :
             AddGalleryItem(t, o, file, ajax, f)
    \/ \E id \in GalleryIds, t \in TitleInputs, o \in OrderInputs, file \in FileInputs,
          ajax \in BOOLEAN, f \in {"none", "save"} :
          EditGalleryItem(id, t, o, file, ajax, f)
    \/ \E id \in GalleryIds \ {0}, file \in FileInputs : GalleryAdminUpload(id, file)

SpecGallery == Init /\ [][NextGallery]_vars

\* the item holds the upload as its image and nothing of a video
HoldsImageOnly(row, file) ==
    /\ row.image_data = file.data
    /\ row.image_filename = file.name
    /\ row.image_content_type = file.content_type
    /\ row.video_data = None /\ row.video_filename = None /\ row.video_content_type = None

\* the item holds the upload as its video and nothing of an image
HoldsVideoOnly(row, file) ==
    /\ row.video_data = file.data
    /\ row.video_filename = file.name
    /\ row.video_content_type = file.content_type
    /\ row.image_data = None /\ row.image_filename = None /\ row.image_content_type = None

\* C27: a gallery item never holds image data and video data at once, an item
\* without image (video) data has no image (video) filename or content type,
\* and an upload that add_gallery_item, edit_gallery_item or the admin form
\* stores leaves the item with the data, filename and content type of that
\* upload as its only kind.
C27_OneKindOfMedia ==
    /\ [](\A id \in DOMAIN gallery :
             /\ gallery[id].image_data = None \/ gallery[id].video_data = None
             /\ gallery[id].image_data = None
                   => /\ gallery[id].image_filename = None
                      /\ gallery[id].image_content_type = None
             /\ gallery[id].video_data = None
                   => /\ gallery[id].video_filename = None
                      /\ gallery[id].video_content_type = None)
    /\ [][/\ \A id \in DOMAIN gallery, t \in TitleInputs, o \in OrderInputs,
                ajax \in BOOLEAN, f \in GalleryFaults :
                /\ (response'.result = "updated"
                       /\ EditGalleryItem(id, t, o, ImageFile, ajax, f))
                      => HoldsImageOnly(gallery'[id], ImageFile)
                /\ (response'.result = "updated"
                       /\ EditGalleryItem(id, t, o, VideoFile, ajax, f))
                      => HoldsVideoOnly(gallery'[id], VideoFile)
          /\ \A id \in DOMAIN gallery :
                (response'.result = "success" /\ GalleryAdminUpload(id, ImageFile))
                   => HoldsImageOnly(gallery'[id], ImageFile)
          /\ \A t \in TitleInputs, o \in OrderInputs, ajax \in BOOLEAN,
                f \in GalleryFaults :
                /\ (response'.result = "added"
                       /\ AddGalleryItem(t, o, ImageFile, ajax, f))
                      => HoldsImageOnly(gallery'[NewGalleryId], ImageFile)
                /\ (response'.result = "added"
                       /\ AddGalleryItem(t, o, VideoFile, ajax, f))
                      => HoldsVideoOnly(gallery'[NewGalleryId], VideoFile)]_vars

\* C27's case: one item holds an image stored through the admin form, while
\* an edit has just stored a video on another
C27_Witness ==
    /\ response = Respond("edit_gallery_item", "updated")
    /\ \E id \in DOMAIN gallery : HoldsVideoOnly(gallery[id], VideoFile)
    /\ \E id \in DOMAIN gallery : HoldsImageOnly(gallery[id], ImageFile)

\* C28: every gallery item in the store holds image data or video data, and
\* an add_gallery_item request that is answered with an error (a missing
\* title or file, a display order that is negative or no number, a file that
\* is neither image nor video) leaves the gallery as it was.
C28_AddedItemHoldsMedia ==
    /\ [](\A id \in DOMAIN gallery :
             gallery[id].image_data # None \/ gallery[id].video_data # None)
    /\ [][\A t \in TitleInputs, o \in OrderInputs, file \in FileInputs,
             ajax \in BOOLEAN, f \in GalleryFaults :
             (AddGalleryItem(t, o, file, ajax, f) /\ response'.result # "added")
                => UNCHANGED gallery]_vars

----------------------------------------------------------------------------
(* custom_admin_car_types *)

\* the names an admin may post for a car type
TypeNameInputs == {"", "Sedan", "sedan", "SUV", "suv"}

\* the rate posted in rate_per_km, minimum_rate_per_km and maximum_rate_per_km:
\* none, a positive number, a negative number, text that is no number
RateInputs == {"", "12", "-5", "abc"}

\* the check of the name by exact match
CarTypeExists_CaseSensitive(name, except) ==
    \E t \in DOMAIN car_types \ {except} : car_types[t].name = name

\* CarType.objects.filter(name__iexact=name).exists(), and the same with
\* .exclude(id=car_type_id); except is 0 when no row is excluded
CarTypeExists(name, except) == CarTypesNamed(name) \ {except} # {}

\* the check of the rates that precedes every write of a car type
RateOutcome(rate) ==
    IF rate = "" THEN "missing_fields"
    ELSE IF ~IsDecimal(rate) THEN "invalid_number"
    ELSE IF ToDecimal(rate) <= 0 THEN "invalid_rate"
    ELSE "ok"

\* action 'add_car_type'
AddCarType(name, rate, is_active, fault) ==
    /\ IF name = "" \/ RateOutcome(rate) = "missing_fields"
       THEN /\ response' = Respond("add_car_type", "missing_fields")
            /\ UNCHANGED car_types
       ELSE IF RateOutcome(rate) # "ok"
       THEN /\ response' = Respond("add_car_type", RateOutcome(rate))
            /\ UNCHANGED car_types
       ELSE IF CarTypeExists(name, 0)
       THEN /\ response' = Respond("add_car_type", "exists")
            /\ UNCHANGED car_types
       ELSE IF fault = "save"
       THEN /\ response' = Respond("add_car_type", "error")
            /\ UNCHANGED car_types
       ELSE /\ car_types' = car_types @@
                               (NewCarTypeId :> [name |-> name, is_active |-> is_active])
            /\ response' = Respond("add_car_type", "added")
    /\ UNCHANGED <<inquiries, last_id, history, cars, now, mail, requests, gallery>>

\* action 'edit_car_type'
EditCarType(car_type_id, name, rate, is_active, fault) ==
    /\ IF car_type_id = 0 \/ name = "" \/ RateOutcome(rate) = "missing_fields"
       THEN /\ response' = Respond("edit_car_type", "missing_fields")
            /\ UNCHANGED car_types
       ELSE IF RateOutcome(rate) # "ok"
       THEN /\ response' = Respond("edit_car_type", RateOutcome(rate))
            /\ UNCHANGED car_types
       ELSE IF car_type_id \notin DOMAIN car_types
       THEN \* get_object_or_404 raises, caught by the action
            /\ response' = Respond("edit_car_type", "error")
            /\ UNCHANGED car_types
       ELSE IF CarTypeExists(name, car_type_id)
       THEN /\ response' = Respond("edit_car_type", "exists")
            /\ UNCHANGED car_types
       ELSE IF fault = "save"
       THEN /\ response' = Respond("edit_car_type", "error")
            /\ UNCHANGED car_types
       ELSE /\ car_types' = [car_types EXCEPT ![car_type_id] =
                                [name |-> name, is_active |-> is_active]]
            /\ response' = Respond("edit_car_type", "updated")
    /\ UNCHANGED <<inquiries, last_id, history, cars, now, mail, requests, gallery>>

\* the count taken as zero
CarsOfType_Unchecked(car_type_id) == {}

\* Car.objects.filter(car_type=car_type)
CarsOfType(car_type_id) == {c \in DOMAIN cars : cars[c].car_type = car_type_id}

\* Inquiry.objects.filter(car_type=car_type)
BookingsOfType(car_type_id) ==
    {id \in DOMAIN inquiries : inquiries[id].car_type = car_type_id}

\* CarType.delete: on_delete=CASCADE on Car.car_type removes the cars of the
\* type, on_delete=SET_NULL clears Inquiry.car_type and, for the removed cars,
\* Inquiry.assigned_car
CarTypeDeleted(car_type_id) ==
    LET gone == {c \in DOMAIN cars : cars[c].car_type = car_type_id}
    IN  /\ car_types' = [t \in DOMAIN car_types \ {car_type_id} |-> car_types[t]]
        /\ cars' = [c \in DOMAIN cars \ gone |-> cars[c]]
        /\ inquiries' =
              [id \in DOMAIN inquiries |->
                  [inquiries[id] EXCEPT
                      !.car_type = IF @ = car_type_id THEN 0 ELSE @,
                      !.assigned_car = IF @ \in gone THEN NoCar ELSE @]]

\* action 'delete_car_type'
DeleteCarType(car_type_id, fault) ==
    /\ IF car_type_id = 0
       THEN /\ response' = Respond("delete_car_type", "missing_id")
            /\ UNCHANGED <<car_types, cars, inquiries>>
       ELSE IF car_type_id \notin DOMAIN car_types
       THEN \* get_object_or_404 raises, caught by the action
            /\ response' = Respond("delete_car_type", "error")
            /\ UNCHANGED <<car_types, cars, inquiries>>
       ELSE IF CarsOfType(car_type_id) # {}
       THEN /\ response' = Respond("delete_car_type", "refused_cars")
            /\ UNCHANGED <<car_types, cars, inquiries>>
       ELSE IF BookingsOfType(car_type_id) # {}
       THEN /\ response' = Respond("delete_car_type", "refused_bookings")
            /\ UNCHANGED <<car_types, cars, inquiries>>
       ELSE IF fault = "save"
       THEN /\ response' = Respond("delete_car_type", "error")
            /\ UNCHANGED <<car_types, cars, inquiries>>
       ELSE /\ CarTypeDeleted(car_type_id)
            /\ response' = Respond("delete_car_type", "deleted")
    /\ UNCHANGED <<last_id, history, now, mail, requests, gallery>>

MaxCarTypes == 3
CarTypeIds == 0 .. MaxCarTypes

\* a booking form that passes validation, for either car type name
TypedForms ==
    [tripType : {"one-way"}, pickupDate : {now}, dropoffDate : {NoTime},
     carType : CarTypeNameInputs, distance : PlainAmounts, totalPrice : PlainAmounts]

(* The catalog of car types: the custom admin, the car types that booking  *)
(* creations add, and the deletions that free a car type.                  *)
NextCarTypes ==
    \/ /\ NewCarTypeId <= MaxCarTypes
       /\ \E n \in TypeNameInputs, r \in RateInputs, f \in SaveFaults :
             AddCarType(n, r, TRUE, f)
    \/ \E t \in CarTypeIds, n \in TypeNameInputs, r \in RateInputs, f \in SaveFaults :
          EditCarType(t, n, r, FALSE, f)
    \/ \E t \in CarTypeIds, f \in SaveFaults : DeleteCarType(t, f)
    \/ /\ last_id < MaxBookings
       /\ NewCarTypeId <= MaxCarTypes
       /\ \E form \in TypedForms, x \in OneSuffix, f \in NoFault :
             CreateBooking(form, x, f)
    \/ \E c \in CarIdInputs, f \in NoFault : DeleteCar(c, f)
    \/ \E id \in BookingIds, f \in NoFault : RestDelete(id, f)

SpecCarTypes == Init /\ [][NextCarTypes]_vars

\* the rows that reference a car type
ReferencesTo(car_type_id) == CarsOfType(car_type_id) \cup BookingsOfType(car_type_id)

====
